---- MODULE Spec2Model ----
(***************************************************************************)
(* smalltalk: length-prefixed message framing over a split TCP stream.     *)
(* The model covers the header and message codecs (header.rs, msg.rs), the *)
(* incremental frame Reader (socket/read.rs) and the queued frame Writer   *)
(* (socket/write.rs).                                                      *)
(*                                                                         *)
(* IsHeader is a trait; the model instantiates it with a fixed-width       *)
(* big-endian length field of header_size digits in base Radix whose       *)
(* from_bytes rejects any byte that is not a digit.  The payload type M is *)
(* instantiated with tuples of bool: bincode writes a bool as one byte, 0  *)
(* or 1, and refuses any other byte when deserializing.                    *)
(***************************************************************************)
EXTENDS Integers, Sequences, FiniteSets, TLC

\* ----------------------------------------------------------------- bounds
\* Most frames a peer sends on the read side.
MaxFrames == 2
\* Longest payload (in bytes) of a message.
MaxPayload == 1
\* Most messages the reader decodes in one run (caps the ready queue).
MaxDecoded == 3
\* Most queue() calls on the writer in one run.
MaxQueued == 2

\* Number of digit values of one header byte; the byte value Radix itself
\* is the one malformed byte of the model.
Radix == 2
\* H::header_size() of the header format used by Spec.
HeaderSize == 2

Bytes == 0..Radix
Min(a, b) == IF a < b THEN a ELSE b

RECURSIVE Pow(_, _)
Pow(b, e) == IF e = 0 THEN 1 ELSE b * Pow(b, e - 1)

RECURSIVE Flatten(_)
Flatten(ss) == IF ss = <<>> THEN <<>> ELSE Head(ss) \o Flatten(Tail(ss))

IsPrefix(s, t) == Len(s) <= Len(t) /\ SubSeq(t, 1, Len(s)) = s

Take(s, n) == SubSeq(s, 1, n)
Drop(s, n) == SubSeq(s, n + 1, Len(s))

\* All sequences over S of length at most n.
SeqsUpTo(S, n) == UNION {[1..k -> S] : k \in 0..n}

\* ----------------------------------------------------------------- header.rs
\* IsHeader::new
header_new(msg_len) == [size |-> msg_len]

\* IsHeader::blank
header_blank == header_new(0)

\* IsHeader::size
header_size_of(h) == h.size

RECURSIVE Digits(_, _)
Digits(n, k) == IF k = 0 THEN <<>> ELSE Append(Digits(n \div Radix, k - 1), n % Radix)

RECURSIVE DigitsValue(_)
DigitsValue(bs) ==
  IF bs = <<>> THEN 0
  ELSE DigitsValue(SubSeq(bs, 1, Len(bs) - 1)) * Radix + bs[Len(bs)]

\* IsHeader::as_bytes / as_bytes_mut, for a header format of hs bytes
header_as_bytes(h, hs) == Digits(header_size_of(h), hs)

\* IsHeader::from_bytes: validates, then parses
header_from_bytes(bs) ==
  IF \E i \in 1..Len(bs) : bs[i] >= Radix
  THEN [ok |-> FALSE, header |-> header_blank]
  ELSE [ok |-> TRUE, header |-> header_new(DigitsValue(bs))]

\* ----------------------------------------------------------------- msg.rs
\* bincode's serialized_size of the payload
serialized_size(m) == Len(m)

\* MessageWrapper::header
msg_header(m) == header_new(serialized_size(m))

\* MessageWrapper::serialize_self
serialize_self(m) == [i \in 1..Len(m) |-> IF m[i] THEN 1 ELSE 0]

\* Mutant of msg_serialize: the header is put after the payload.
msg_serialize_header_last(m, hs) == serialize_self(m) \o header_as_bytes(msg_header(m), hs)

\* MessageWrapper::serialize: header bytes, then the payload bytes
msg_serialize(m, hs) == header_as_bytes(msg_header(m), hs) \o serialize_self(m)

\* MessageWrapper::from_bytes
msg_from_bytes(data) ==
  IF \E i \in 1..Len(data) : data[i] \notin {0, 1}
  THEN [ok |-> FALSE, msg |-> <<>>]
  ELSE [ok |-> TRUE, msg |-> [i \in 1..Len(data) |-> data[i] = 1]]

\* The payloads a header of hs bytes can frame, within the bound.
Msgs(hs) == SeqsUpTo(BOOLEAN, Min(MaxPayload, Pow(Radix, hs) - 1))

\* The wire format of a sequence of messages: frames back to back.
RECURSIVE WireOf(_, _)
WireOf(ms, hs) ==
  IF ms = <<>> THEN <<>> ELSE msg_serialize(Head(ms), hs) \o WireOf(Tail(ms), hs)

\* ----------------------------------------------------------------- socket/read.rs
\* enum ReaderState
Ready == [tag |-> "Ready"]
ReadingHeader == [tag |-> "ReadingHeader"]
ProcessHeader == [tag |-> "ProcessHeader"]
ReadingMessage(h) == [tag |-> "ReadingMessage", header |-> h]
ProcessMessage(h) == [tag |-> "ProcessMessage", header |-> h]

\* Reader::new
Reader_new(hs) ==
  [databuffer |-> <<>>, state |-> Ready, ready_messages |-> <<>>, header_size |-> hs]

\* Mutant of read_buf: the bytes are read into the start of the buffer.
read_buf_overwrite(databuffer, chunk) == chunk

\* socket.read_buf(&mut self.databuffer): whatever arrived is appended
read_buf(databuffer, chunk) == databuffer \o chunk

\* Mutant of read_next_state: the payload threshold is compared with >.
read_next_state_strict(state, len, hs) ==
  CASE state.tag = "Ready" -> ReadingHeader
    [] state.tag = "ReadingHeader" ->
         IF len >= hs THEN ProcessHeader ELSE state
    [] state.tag = "ReadingMessage" ->
         IF len > header_size_of(state.header)
         THEN ProcessMessage(state.header) ELSE state
    [] OTHER -> state

\* The match of Reader::read: only the reading variants progress, and only
\* to their processing variant.
read_next_state(state, len, hs) ==
  CASE state.tag = "Ready" -> ReadingHeader
    [] state.tag = "ReadingHeader" ->
         IF len >= hs THEN ProcessHeader ELSE state
    [] state.tag = "ReadingMessage" ->
         IF len >= header_size_of(state.header)
         THEN ProcessMessage(state.header) ELSE state
    [] OTHER -> state

\* Reader::read, once read_buf has returned Ok with the bytes of chunk
Reader_read(rd, chunk) ==
  LET buf == read_buf(rd.databuffer, chunk) IN
  [rd EXCEPT !.databuffer = buf,
             !.state = read_next_state(rd.state, Len(buf), rd.header_size)]

\* Mutant of update_process_header: a header that fails to decode is skipped,
\* the reader goes back to waiting for a header.
update_process_header_skips_bad_header(rd) ==
  IF rd.header_size > Len(rd.databuffer)
  THEN [rd |-> rd, ret |-> "Panic"]
  ELSE LET header_dat == Take(rd.databuffer, rd.header_size)
           rest == Drop(rd.databuffer, rd.header_size)
           parsed == header_from_bytes(header_dat)
       IN IF parsed.ok
          THEN [rd |-> [rd EXCEPT !.databuffer = rest,
                                  !.state = ReadingMessage(parsed.header)],
                ret |-> "OkFalse"]
          ELSE [rd |-> [rd EXCEPT !.databuffer = rest, !.state = ReadingHeader],
                ret |-> "ErrHeaderParser"]

\* Reader::update, ProcessHeader arm.  BytesMut::split_to panics when asked
\* for more bytes than the buffer holds.
update_process_header(rd) ==
  IF rd.header_size > Len(rd.databuffer)
  THEN [rd |-> rd, ret |-> "Panic"]
  ELSE LET header_dat == Take(rd.databuffer, rd.header_size)
           rest == Drop(rd.databuffer, rd.header_size)
           parsed == header_from_bytes(header_dat)
       IN IF parsed.ok
          THEN [rd |-> [rd EXCEPT !.databuffer = rest,
                                  !.state = ReadingMessage(parsed.header)],
                ret |-> "OkFalse"]
          ELSE [rd |-> [rd EXCEPT !.databuffer = rest], ret |-> "ErrHeaderParser"]

\* Mutant of update_process_message: the decoded message is reported but not
\* pushed onto the ready queue.
update_process_message_no_push(rd) ==
  LET size == header_size_of(rd.state.header) IN
  IF size > Len(rd.databuffer)
  THEN [rd |-> rd, ret |-> "Panic"]
  ELSE LET message_dat == Take(rd.databuffer, size)
           rest == Drop(rd.databuffer, size)
           parsed == msg_from_bytes(message_dat)
       IN IF parsed.ok
          THEN [rd |-> [rd EXCEPT !.databuffer = rest], ret |-> "OkTrue"]
          ELSE [rd |-> [rd EXCEPT !.databuffer = rest], ret |-> "ErrMessageDeseri"]

\* Reader::update, ProcessMessage arm
update_process_message(rd) ==
  LET size == header_size_of(rd.state.header) IN
  IF size > Len(rd.databuffer)
  THEN [rd |-> rd, ret |-> "Panic"]
  ELSE LET message_dat == Take(rd.databuffer, size)
           rest == Drop(rd.databuffer, size)
           parsed == msg_from_bytes(message_dat)
       IN IF parsed.ok
          THEN [rd |-> [rd EXCEPT !.databuffer = rest,
                                  !.ready_messages = Append(@, parsed.msg)],
                ret |-> "OkTrue"]
          ELSE [rd |-> [rd EXCEPT !.databuffer = rest], ret |-> "ErrMessageDeseri"]

\* Mutant of Reader_update: a header that is already whole in the buffer is
\* parsed from ReadingHeader too.
Reader_update_parses_early(rd) ==
  CASE rd.state.tag = "ProcessHeader" -> update_process_header(rd)
    [] rd.state.tag = "ProcessMessage" -> update_process_message(rd)
    [] rd.state.tag = "ReadingHeader" /\ Len(rd.databuffer) >= rd.header_size ->
         update_process_header(rd)
    [] OTHER -> [rd |-> rd, ret |-> "OkFalse"]

\* Reader::update
Reader_update(rd) ==
  CASE rd.state.tag = "ProcessHeader" -> update_process_header(rd)
    [] rd.state.tag = "ProcessMessage" -> update_process_message(rd)
    [] OTHER -> [rd |-> rd, ret |-> "OkFalse"]

\* Reader::ready_messages: drains the whole queue
Reader_ready_messages(rd) ==
  [rd |-> [rd EXCEPT !.ready_messages = <<>>], out |-> rd.ready_messages]

\* Mutant of Reader_latest_message: the newest message is removed, not the
\* oldest.
Reader_latest_message_pops_back(rd) ==
  IF rd.ready_messages = <<>>
  THEN [rd |-> rd, out |-> <<>>]
  ELSE [rd |-> [rd EXCEPT !.ready_messages = Take(@, Len(@) - 1)],
        out |-> <<rd.ready_messages[Len(rd.ready_messages)]>>]

\* Reader::latest_message: removes the element at index 0, if any
Reader_latest_message(rd) ==
  IF rd.ready_messages = <<>>
  THEN [rd |-> rd, out |-> <<>>]
  ELSE [rd |-> [rd EXCEPT !.ready_messages = Tail(@)],
        out |-> <<Head(rd.ready_messages)>>]

\* Mutant of Reader_clear_state: the state machine is not reset.
Reader_clear_state_keeps_state(rd) ==
  [rd EXCEPT !.databuffer = <<>>, !.ready_messages = <<>>]

\* Reader::clear_state
Reader_clear_state(rd) ==
  [rd EXCEPT !.databuffer = <<>>, !.state = Ready, !.ready_messages = <<>>]

\* ----------------------------------------------------------------- socket/write.rs
\* Writer::new
Writer_new == [send_buffers |-> <<>>]

\* Mutant of Writer_queue: the header is pushed before the payload is
\* serialized, so a failure leaves a partial frame in the queue.
Writer_queue_partial(w, m, hs, seri_ok) ==
  IF seri_ok
  THEN [w |-> [w EXCEPT !.send_buffers = Append(@, msg_serialize(m, hs))], ret |-> "Ok"]
  ELSE [w |-> [w EXCEPT !.send_buffers = Append(@, header_as_bytes(msg_header(m), hs))],
        ret |-> "ErrSeri"]

\* Writer::queue: serialize, then push_back; the ? returns before the push
\* when serialization fails (seri_ok = FALSE).
Writer_queue(w, m, hs, seri_ok) ==
  IF seri_ok
  THEN [w |-> [w EXCEPT !.send_buffers = Append(@, msg_serialize(m, hs))], ret |-> "Ok"]
  ELSE [w |-> w, ret |-> "ErrSeri"]

\* What the transport answers to one write attempt: io.err, or io.n bytes
\* accepted.  write_buf returns Ok(0) without asking the socket when the
\* buffer has no bytes left.
write_buf_n(latest_buf, io) == IF latest_buf = <<>> THEN 0 ELSE Min(io.n, Len(latest_buf))

\* Mutant of write_zero_arm: the remaining() check is dropped, a zero-byte
\* answer always pops the frame and succeeds.
write_zero_arm_always_pops(w, remaining) ==
  [w |-> [w EXCEPT !.send_buffers = Tail(@)], ret |-> "Ok", out |-> <<>>]

\* Mutant of write_zero_arm: the flushed frame is never popped.
write_zero_arm_never_pops(w, remaining) ==
  [w |-> w, ret |-> IF remaining = <<>> THEN "Ok" ELSE "ErrDisconnected", out |-> <<>>]

\* Mutant of write_zero_arm: a frame the peer no longer takes is dropped
\* from the queue before Disconnected is returned.
write_zero_arm_drops_on_disconnect(w, remaining) ==
  [w |-> [w EXCEPT !.send_buffers = Tail(@)],
   ret |-> IF remaining = <<>> THEN "Ok" ELSE "ErrDisconnected", out |-> <<>>]

\* Writer::write, arm Ok(0): nothing was accepted.  remaining is what the
\* front frame still holds.
write_zero_arm(w, remaining) ==
  IF remaining = <<>>
  THEN [w |-> [w EXCEPT !.send_buffers = Tail(@)], ret |-> "Ok", out |-> <<>>]
  ELSE [w |-> w, ret |-> "ErrDisconnected", out |-> <<>>]

\* Mutant of write_accept_arm: the bytes are written from the frame without
\* advancing it.
write_accept_arm_no_advance(w, latest_buf, n) ==
  [w |-> w, ret |-> "Ok", out |-> Take(latest_buf, n)]

\* Writer::write, arm Ok(_n): write_buf has advanced the front frame past the
\* n bytes the transport accepted; the frame stays in the queue.
write_accept_arm(w, latest_buf, n) ==
  [w |-> [w EXCEPT !.send_buffers[1] = Drop(latest_buf, n)],
   ret |-> "Ok", out |-> Take(latest_buf, n)]

\* Writer::write.  out is what this call put on the transport.
Writer_write(w, io) ==
  IF w.send_buffers = <<>>
  THEN [w |-> w, ret |-> "Ok", out |-> <<>>]
  ELSE LET latest_buf == Head(w.send_buffers)
           n == write_buf_n(latest_buf, io)
       IN IF io.err /\ latest_buf # <<>>
          THEN [w |-> w, ret |-> "ErrIOError", out |-> <<>>]
          ELSE IF n = 0
          THEN write_zero_arm(w, latest_buf)
          ELSE write_accept_arm(w, latest_buf, n)

UpdateErrors == {"ErrHeaderParser", "ErrMessageDeseri"}

\* ----------------------------------------------------------------- socket/interface.rs, client/mod.rs
\* What update() gives back: the reader and writer it leaves, ret (Ok,
\* ErrReadUpdate, ErrWrite, or Panic), the wrapped sub-error (cause), the
\* status's new_msg, what Reader::update and Writer::write returned (rret,
\* wret; NotCalled for a call not made) and the bytes put on the transport.
FacadeResult(rd, w, r, cause, new_msg, rret, wret, out) ==
  [rd |-> rd, w |-> w, ret |-> r, cause |-> cause, new_msg |-> new_msg,
   rret |-> rret, wret |-> wret, out |-> out]

\* Mutant of Facade_update: the writer is flushed before the reader is
\* updated.
Facade_update_write_first(rd, w, io) ==
  LET r == Writer_write(w, io)
      u == Reader_update(rd)
  IN CASE u.ret = "Panic" ->
            FacadeResult(u.rd, r.w, "Panic", "None", FALSE, u.ret, r.ret, r.out)
       [] u.ret \in UpdateErrors ->
            FacadeResult(u.rd, r.w, "ErrReadUpdate", u.ret, FALSE, u.ret, r.ret, r.out)
       [] OTHER ->
            IF r.ret # "Ok"
            THEN FacadeResult(u.rd, r.w, "ErrWrite", r.ret, FALSE, u.ret, r.ret, r.out)
            ELSE FacadeResult(u.rd, r.w, "Ok", "None", u.ret = "OkTrue", u.ret, r.ret, r.out)

\* _SocketUtils::update and Client::update: Reader::update, then
\* Writer::write; each error returns at once, tagged with its side.
Facade_update(rd, w, io) ==
  LET u == Reader_update(rd) IN
  CASE u.ret = "Panic" ->
         FacadeResult(u.rd, w, "Panic", "None", FALSE, u.ret, "NotCalled", <<>>)
    [] u.ret \in UpdateErrors ->
         FacadeResult(u.rd, w, "ErrReadUpdate", u.ret, FALSE, u.ret, "NotCalled", <<>>)
    [] OTHER ->
         LET r == Writer_write(w, io) IN
         IF r.ret # "Ok"
         THEN FacadeResult(u.rd, r.w, "ErrWrite", r.ret, FALSE, u.ret, r.ret, r.out)
         ELSE FacadeResult(u.rd, r.w, "Ok", "None", u.ret = "OkTrue", u.ret, r.ret, r.out)

\* ----------------------------------------------------------------- state
VARIABLES
  reader,     \* the Reader: databuffer, state, ready_messages, header_size
  wire,       \* bytes the peer has sent that the read half has not yet read
  eof,        \* the peer has closed: a read of an empty wire returns Ok(0)
  pending,    \* a read() future is suspended at read_buf
  panicked,   \* a call has panicked
  sent,       \* history: the messages the peer framed
  stream,     \* history: every byte the peer sent, in order
  consumed,   \* history: the bytes split off or cleared from databuffer
  drained,    \* history: the messages handed to the caller
  clears,     \* history: clear_state() calls so far
  failed,     \* history: update() returned an error since the last clear_state()
  op,         \* history: the operation that returned last
  ret,        \* history: what it returned
  sawEof,     \* history: the last call was a read() that read_buf gave Ok(0)
  piped       \* history: the two whole frames the last read() left at the front of
              \* databuffer, and how many messages had been decoded by then
VARIABLES
  frag        \* one fresh Reader per chunk size, each fed the same bytes: its
              \* reader, the bytes not yet fed, and where its driver stands
VARIABLES
  codec       \* one payload on its way through MessageWrapper::serialize, then
              \* H::from_bytes and MessageWrapper::from_bytes: hs, msg, pc, bytes,
              \* the parsed header and the decoded payload
VARIABLES
  facade      \* the last call on the facade (update, wait_for_message) and what
              \* it returned
VARIABLES
  writer,     \* the Writer: send_buffers, the front one advanced past what was flushed
  accepted,   \* every byte the write half of the transport has accepted, in order
  queued,     \* history: the frames queue() has pushed, whole, in order
  wcall       \* history: the last Writer call: op, ret, and for a write() the front
              \* frame's unflushed bytes before it (rem) and what the transport did (io)

readerVars ==
  <<reader, wire, eof, pending, panicked, sent, stream, consumed, drained,
    clears, failed, op, ret, sawEof, piped>>

writerVars == <<writer, accepted, queued, wcall>>

\* What the reader and writer actions leave alone.
otherVars == <<frag, codec, facade>>

vars == <<readerVars, writerVars, otherVars>>

\* Most clear_state() calls in one run.
MaxClears == 1

\* One byte of s replaced by the malformed byte.
Corruptions(s) == {[s EXCEPT ![k] = Radix] : k \in 1..Len(s)}

decoded == drained \o reader.ready_messages

\* The payloads of the whole, well-formed frames at the front of buf.
RECURSIVE FramesIn(_, _)
FramesIn(buf, hs) ==
  IF Len(buf) < hs THEN <<>>
  ELSE LET h == header_from_bytes(Take(buf, hs))
           body == Take(Drop(buf, hs), header_size_of(h.header))
       IN IF ~h.ok \/ Len(buf) < hs + header_size_of(h.header) \/ ~msg_from_bytes(body).ok
          THEN <<>>
          ELSE <<msg_from_bytes(body).msg>>
               \o FramesIn(Drop(buf, hs + header_size_of(h.header)), hs)

NotPiped == [on |-> FALSE, base |-> 0, msgs |-> <<>>]

\* What a read() that leaves the reader rd records in piped: rd waits for a
\* header (its buffer starts at a frame boundary) and holds two whole frames.
PipedAfterRead(rd, ndecoded) ==
  LET fs == FramesIn(rd.databuffer, rd.header_size) IN
  IF rd.state.tag \in {"ReadingHeader", "ProcessHeader"} /\ Len(fs) >= 2
  THEN [on |-> TRUE, base |-> ndecoded, msgs |-> Take(fs, 2)]
  ELSE NotPiped

InitReader(hs, streams) ==
  /\ stream \in streams
  /\ wire = stream
  /\ eof = FALSE
  /\ reader = Reader_new(hs)
  /\ pending = FALSE
  /\ panicked = FALSE
  /\ consumed = <<>>
  /\ drained = <<>>
  /\ clears = 0
  /\ failed = FALSE
  /\ op = "new"
  /\ ret = "None"
  /\ sawEof = FALSE
  /\ piped = NotPiped

\* The ways the same bytes are fed: in chunks of 1, 2 or 7 bytes, or all in
\* one read().
ChunkSizes == {"1", "2", "7", "all"}
ChunkLen(c, bytes) ==
  CASE c = "1" -> Min(1, Len(bytes))
    [] c = "2" -> Min(2, Len(bytes))
    [] c = "7" -> Min(7, Len(bytes))
    [] OTHER -> Len(bytes)

Harness_new(hs, bytes) == [reader |-> Reader_new(hs), wire |-> bytes, pc |-> "read"]

NoFrag == [c \in ChunkSizes |-> Harness_new(HeaderSize, <<>>)]

NoIo == [err |-> FALSE, n |-> 0]

\* No payload is on its way through the codec.
NoCodec ==
  [hs |-> 0, msg |-> <<>>, pc |-> "idle", bytes |-> <<>>,
   header |-> [ok |-> FALSE, header |-> header_blank],
   out |-> [ok |-> FALSE, msg |-> <<>>]]

\* No call has been made on the facade.
NoFacade ==
  [op |-> "new", pc |-> "idle", ret |-> "None", cause |-> "None", new_msg |-> FALSE,
   rret |-> "None", wret |-> "None", msg |-> <<>>, newest |-> <<>>]

\* The codec and the facade are not used.
InitIdle == codec = NoCodec /\ facade = NoFacade

InitWriter ==
  /\ writer = Writer_new
  /\ accepted = <<>>
  /\ queued = <<>>
  /\ wcall = [op |-> "new", ret |-> "Ok", rem |-> 0, io |-> NoIo]

Init ==
  /\ InitWriter
  /\ InitIdle
  /\ frag = NoFrag
  /\ sent \in SeqsUpTo(Msgs(HeaderSize), MaxFrames)
  /\ InitReader(HeaderSize,
                {WireOf(sent, HeaderSize)} \cup Corruptions(WireOf(sent, HeaderSize)))

\* The caller issues read(): the future suspends at read_buf.
ReadIssue ==
  /\ ~pending /\ ~panicked
  /\ pending' = TRUE
  /\ UNCHANGED <<reader, wire, eof, panicked, sent, stream, consumed, drained,
                 clears, failed, op, ret, sawEof, piped>>
  /\ UNCHANGED <<writerVars, otherVars>>

\* The caller drops the suspended future.
ReadCancel ==
  /\ pending
  /\ pending' = FALSE
  /\ op' = "cancel"
  /\ ret' = "None"
  /\ sawEof' = FALSE
  /\ UNCHANGED <<reader, wire, eof, panicked, sent, stream, consumed, drained,
                 clears, failed, piped>>
  /\ UNCHANGED <<writerVars, otherVars>>

\* read_buf completes with n >= 1 bytes and read() runs to its end.
ReadDataOf(n) ==
  /\ pending
  /\ n \in 1..Len(wire)
  /\ reader' = Reader_read(reader, Take(wire, n))
  /\ wire' = Drop(wire, n)
  /\ sawEof' = FALSE
  /\ piped' = PipedAfterRead(reader', Len(decoded))
  /\ pending' = FALSE
  /\ op' = "read"
  /\ ret' = "Ok"
  /\ UNCHANGED <<eof, panicked, sent, stream, consumed, drained, clears, failed>>
  /\ UNCHANGED <<writerVars, otherVars>>

ReadData == \E n \in 1..Len(wire) : ReadDataOf(n)

\* read_buf completes with Ok(0): the peer has closed.
ReadEof ==
  /\ pending /\ wire = <<>> /\ eof
  /\ reader' = Reader_read(reader, <<>>)
  /\ sawEof' = TRUE
  /\ piped' = PipedAfterRead(reader', Len(decoded))
  /\ pending' = FALSE
  /\ op' = "read"
  /\ ret' = "Ok"
  /\ UNCHANGED <<wire, eof, panicked, sent, stream, consumed, drained, clears, failed>>
  /\ UNCHANGED <<writerVars, otherVars>>

\* read_buf fails: the ? returns the io error before the match.
ReadIoError ==
  /\ pending
  /\ sawEof' = FALSE
  /\ pending' = FALSE
  /\ op' = "read"
  /\ ret' = "ErrIo"
  /\ UNCHANGED <<reader, wire, eof, panicked, sent, stream, consumed, drained,
                 clears, failed, piped>>
  /\ UNCHANGED <<writerVars, otherVars>>

\* The peer closes its write half after its last byte.
PeerClose ==
  /\ ~eof /\ wire = <<>>
  /\ eof' = TRUE
  /\ UNCHANGED <<reader, wire, pending, panicked, sent, stream, consumed, drained,
                 clears, failed, op, ret, sawEof, piped>>
  /\ UNCHANGED <<writerVars, otherVars>>

Update ==
  /\ ~pending /\ ~panicked
  /\ Len(decoded) < MaxDecoded
  /\ LET u == Reader_update(reader) IN
       /\ reader' = u.rd
       /\ panicked' = (u.ret = "Panic")
       /\ consumed' = consumed \o
            Take(reader.databuffer, Len(reader.databuffer) - Len(u.rd.databuffer))
       /\ failed' = (failed \/ u.ret \in UpdateErrors)
       /\ ret' = u.ret
  /\ op' = "update"
  /\ sawEof' = FALSE
  /\ UNCHANGED <<wire, eof, pending, sent, stream, drained, clears, piped>>
  /\ UNCHANGED <<writerVars, otherVars>>

ReadyMessages ==
  /\ ~pending /\ ~panicked
  /\ LET d == Reader_ready_messages(reader) IN
       /\ reader' = d.rd
       /\ drained' = drained \o d.out
  /\ op' = "ready_messages"
  /\ ret' = "Drain"
  /\ sawEof' = FALSE
  /\ UNCHANGED <<wire, eof, pending, panicked, sent, stream, consumed, clears,
                 failed, piped>>
  /\ UNCHANGED <<writerVars, otherVars>>

LatestMessage ==
  /\ ~pending /\ ~panicked
  /\ LET d == Reader_latest_message(reader) IN
       /\ reader' = d.rd
       /\ drained' = drained \o d.out
       /\ ret' = IF d.out = <<>> THEN "None" ELSE "Some"
  /\ op' = "latest_message"
  /\ sawEof' = FALSE
  /\ UNCHANGED <<wire, eof, pending, panicked, sent, stream, consumed, clears,
                 failed, piped>>
  /\ UNCHANGED <<writerVars, otherVars>>

ClearState ==
  /\ ~pending /\ ~panicked
  /\ clears < MaxClears
  /\ reader' = Reader_clear_state(reader)
  /\ consumed' = consumed \o reader.databuffer
  /\ clears' = clears + 1
  /\ failed' = FALSE
  /\ op' = "clear_state"
  /\ ret' = "None"
  /\ sawEof' = FALSE
  /\ piped' = NotPiped
  /\ UNCHANGED <<wire, eof, pending, panicked, sent, stream, drained>>
  /\ UNCHANGED <<writerVars, otherVars>>

Next ==
  \/ ReadIssue
  \/ ReadCancel
  \/ ReadData
  \/ ReadEof
  \/ ReadIoError
  \/ PeerClose
  \/ Update
  \/ ReadyMessages
  \/ LatestMessage
  \/ ClearState

Spec == Init /\ [][Next]_vars

\* ----------------------------------------------------------------- Reader claims
WellFormed == stream = WireOf(sent, reader.header_size)

\* C1: on a stream of well-formed frames, under any fragmentation and any
\* interleaving of read() and update(), the messages decoded so far (drained,
\* then those still queued) are a prefix of the payloads sent.
C1_DecodedPrefixOfSent ==
  (WellFormed /\ clears = 0) => IsPrefix(decoded, sent)

\* update() can make no progress: the reader is in no processing state.
UpdateIdle == reader.state.tag \notin {"ProcessHeader", "ProcessMessage"}

\* C3: when one read() has left two whole frames in the buffer, update()
\* calls alone decode both, in arrival order: once update() has nothing left
\* to do, both messages have been queued.
C3_Pipelining ==
  (piped.on /\ ~panicked /\ UpdateIdle)
    => /\ Len(decoded) >= piped.base + 2
       /\ SubSeq(decoded, piped.base + 1, piped.base + 2) = piped.msgs

\* Every byte the peer sent is, in order, in exactly one place: split off the
\* buffer already, in the buffer, or still in the transport.
Conservation == stream = consumed \o reader.databuffer \o wire

\* C4: read() is cancellation safe: dropping the pending read() changes
\* neither the reader nor what the transport still holds, and no byte is ever
\* lost or duplicated between the transport and the buffer.
C4_CancelSafe ==
  /\ []Conservation
  /\ [][ReadCancel => (reader' = reader /\ wire' = wire /\ consumed' = consumed)]_vars

C4_Witness ==
  /\ op = "cancel"
  /\ reader.databuffer # <<>>
  /\ wire # <<>>

\* C8: a read() that met the end of the stream (read_buf gave Ok(0)) reports
\* something other than the plain success it reports when bytes arrived.
C8_EofReportedDistinctly ==
  (op = "read" /\ sawEof) => ret # "Ok"

\* C9: after update() has returned a decode error, and until clear_state(),
\* a further update() changes neither the buffer, the state nor the queue,
\* and attempts no decode (so it cannot fail or panic either).
C9_UpdateAfterErrorIsNoOp ==
  [][(failed /\ Update) => (reader' = reader /\ ret' = "OkFalse" /\ ~panicked')]_vars

\* C18: an update() in ProcessMessage whose payload decodes removes exactly
\* header.size() bytes from the front of the buffer, pushes exactly one
\* message, returns true and leaves the reader in ReadingHeader.
C18_ProcessMessageToReadingHeader ==
  [][(Update /\ reader.state.tag = "ProcessMessage" /\ ret' = "OkTrue") =>
       /\ reader.databuffer =
            Take(reader.databuffer, header_size_of(reader.state.header))
              \o reader'.databuffer
       /\ Len(reader'.ready_messages) = Len(reader.ready_messages) + 1
       /\ reader'.state = ReadingHeader]_vars

\* C19: an update() in ProcessHeader, on the first header_size() bytes of the
\* buffer: if they decode to a header, exactly those bytes are removed, the
\* reader moves to ReadingMessage with that header and update() returns
\* false; if they do not, update() returns the header error, the state is
\* still ProcessHeader and nothing is pushed onto the ready queue.
C19_ProcessHeaderArm ==
  [][(Update /\ reader.state.tag = "ProcessHeader"
             /\ Len(reader.databuffer) >= reader.header_size) =>
       LET h == header_from_bytes(Take(reader.databuffer, reader.header_size)) IN
       /\ reader'.ready_messages = reader.ready_messages
       /\ IF h.ok
          THEN /\ reader.databuffer =
                    Take(reader.databuffer, reader.header_size) \o reader'.databuffer
               /\ reader'.state = ReadingMessage(h.header)
               /\ ret' = "OkFalse"
          ELSE /\ ret' = "ErrHeaderParser"
               /\ reader'.state = ProcessHeader]_vars

C19_Witness ==
  /\ op = "update"
  /\ ret = "ErrHeaderParser"
  /\ reader.state = ProcessHeader
  /\ wire # <<>>

\* C21: update() called outside the two processing states returns false
\* and leaves state, buffer and ready queue unchanged; and in every state
\* update() returns true exactly when that call appended one message to the
\* ready queue (and otherwise appends none).
C21_UpdateNoOpOutsideFullStates ==
  [][Update =>
       /\ reader.state.tag \notin {"ProcessHeader", "ProcessMessage"}
            => (ret' = "OkFalse" /\ reader' = reader)
       /\ ret' = "OkTrue"
            <=> /\ Len(reader'.ready_messages) = Len(reader.ready_messages) + 1
                /\ Take(reader'.ready_messages, Len(reader.ready_messages))
                     = reader.ready_messages
       /\ ret' # "OkTrue" => reader'.ready_messages = reader.ready_messages]_vars

C21_Witness ==
  /\ op = "update"
  /\ ret = "OkFalse"
  /\ reader.state.tag = "ReadingHeader"
  /\ Len(reader.databuffer) >= reader.header_size
  /\ ~panicked

\* C20: a successful read() re-evaluates the threshold of the accumulating
\* state: it leaves a reader in ReadingHeader only with fewer than
\* header_size() bytes buffered and a reader in ReadingMessage only with fewer
\* than header.size() bytes buffered, and it moves to a processing state only
\* when the buffer holds at least the bytes that state needs.
C20_ThresholdsAfterRead ==
  [][(ReadData \/ ReadEof) =>
       /\ reader'.state.tag = "ReadingHeader"
            => Len(reader'.databuffer) < reader.header_size
       /\ reader'.state.tag = "ReadingMessage"
            => Len(reader'.databuffer) < header_size_of(reader'.state.header)
       /\ (reader'.state.tag = "ProcessHeader" /\ reader.state.tag # "ProcessHeader")
            => Len(reader'.databuffer) >= reader.header_size
       /\ (reader'.state.tag = "ProcessMessage" /\ reader.state.tag # "ProcessMessage")
            => Len(reader'.databuffer) >= header_size_of(reader'.state.header)]_vars

\* C23: in every reachable state a reader in ProcessHeader holds at least
\* header_size() buffered bytes and a reader in ProcessMessage holds at least
\* header.size() buffered bytes, so update() never splits off more bytes than
\* the buffer holds, and never panics.
C23_ProcessingStatesHoldTheirBytes ==
  /\ reader.state.tag = "ProcessHeader"
       => Len(reader.databuffer) >= reader.header_size
  /\ reader.state.tag = "ProcessMessage"
       => Len(reader.databuffer) >= header_size_of(reader.state.header)
  /\ ~panicked

\* C24: an update() that returns a decode error leaves the buffer, the state
\* and the ready queue exactly as they were before the call.
C24_FailedUpdateChangesNothing ==
  [][(Update /\ ret' \in UpdateErrors) => reader' = reader]_vars

\* read() issued, dropped or completed, and update(): the calls that move
\* bytes from the transport through the buffer.
NextReadUpdate ==
  \/ ReadIssue
  \/ ReadCancel
  \/ ReadData
  \/ ReadEof
  \/ PeerClose
  \/ Update

ReadUpdateSpec == Init /\ [][NextReadUpdate]_vars

\* ----------------------------------------------------------------- clear_state
\* One byte of the first frame of s (its header or the first payload byte)
\* replaced by the malformed byte.
CorruptionsOfFirstFrame(s, hs) ==
  {[s EXCEPT ![k] = Radix] : k \in 1..Min(Len(s), hs + 1)}

\* Most frames the peer sends in the specifications of clear_state() and of
\* the facade.
MaxFramesShort == 1

\* Well-formed streams, and streams whose first frame is corrupted.
InitClear ==
  /\ InitWriter
  /\ InitIdle
  /\ frag = NoFrag
  /\ sent \in SeqsUpTo(Msgs(HeaderSize), MaxFramesShort)
  /\ InitReader(HeaderSize,
                {WireOf(sent, HeaderSize)}
                  \cup CorruptionsOfFirstFrame(WireOf(sent, HeaderSize), HeaderSize))

\* read(), update() and clear_state().
NextClear ==
  \/ ReadIssue
  \/ ReadData
  \/ Update
  \/ ClearState

ClearSpec == InitClear /\ [][NextClear]_vars

\* C13: clear_state(), called in any reachable state, leaves the reader as
\* Reader::new made it: state Ready, empty buffer, empty ready queue (and the
\* same header size), so what it decodes from then on is what a fresh reader
\* decodes from the same bytes.
C13_ClearStateIsFresh ==
  [][ClearState => reader' = Reader_new(reader.header_size)]_vars

C13_Witness ==
  /\ op = "clear_state"
  /\ reader = Reader_new(HeaderSize)
  /\ stream # WireOf(sent, HeaderSize)
  /\ consumed # <<>>
  /\ wire # <<>>

\* ----------------------------------------------------------------- draining
\* Well-formed streams only.
InitDrain ==
  /\ InitWriter
  /\ InitIdle
  /\ frag = NoFrag
  /\ sent \in SeqsUpTo(Msgs(HeaderSize), MaxFrames)
  /\ InitReader(HeaderSize, {WireOf(sent, HeaderSize)})

\* read(), update() and the two draining calls.
NextDrain ==
  \/ ReadIssue
  \/ ReadData
  \/ Update
  \/ ReadyMessages
  \/ LatestMessage

DrainSpec == InitDrain /\ [][NextDrain]_vars

Ios(rem) == {[err |-> TRUE, n |-> 0]} \cup {[err |-> FALSE, n |-> k] : k \in 0..rem}

\* The same, for a transport that takes at least one byte of every attempt.
AcceptingIos(rem) == {[err |-> FALSE, n |-> k] : k \in Min(1, rem)..rem}

FrontRem(w) == IF w.send_buffers = <<>> THEN 0 ELSE Len(Head(w.send_buffers))

\* queue() of the message m, whose serialization succeeds or not.
QueueMessageOf(m, seri_ok) ==
  /\ Len(queued) < MaxQueued
  /\ LET q == Writer_queue(writer, m, HeaderSize, seri_ok) IN
       /\ writer' = q.w
       /\ queued' = IF seri_ok THEN Append(queued, msg_serialize(m, HeaderSize)) ELSE queued
       /\ wcall' = [op |-> "queue", ret |-> q.ret, rem |-> 0, io |-> NoIo]
  /\ UNCHANGED accepted
  /\ UNCHANGED <<readerVars, otherVars>>

QueueMessage == \E m \in Msgs(HeaderSize), seri_ok \in BOOLEAN : QueueMessageOf(m, seri_ok)

WriteWith(io) ==
  LET r == Writer_write(writer, io) IN
    /\ writer' = r.w
    /\ accepted' = accepted \o r.out
    /\ wcall' = [op |-> "write", ret |-> r.ret, rem |-> FrontRem(writer), io |-> io]
    /\ UNCHANGED queued
    /\ UNCHANGED <<readerVars, otherVars>>

Write == \E io \in Ios(FrontRem(writer)) : WriteWith(io)

WriteAccepting == \E io \in AcceptingIos(FrontRem(writer)) : WriteWith(io)

InitWriterOnly ==
  /\ InitWriter
  /\ InitIdle
  /\ frag = NoFrag
  /\ sent = <<>>
  /\ InitReader(HeaderSize, {<<>>})

NextWriter == QueueMessage \/ Write

WriterSpec == InitWriterOnly /\ [][NextWriter]_vars

NextWriterLive == QueueMessage \/ WriteAccepting

\* write() is called again and again, on a transport that keeps accepting.
WriterLiveSpec == InitWriterOnly /\ [][NextWriterLive]_vars /\ WF_vars(WriteAccepting)

\* ----------------------------------------------------------------- Writer claims
\* The pending queue is the tail of what was queued: whole frames behind a
\* front frame of which only a suffix may be left.
PendingIsTail ==
  LET k == Len(queued) - Len(writer.send_buffers) IN
    /\ k >= 0
    /\ \A i \in 1..Len(writer.send_buffers) :
         LET f == queued[k + i]
             b == writer.send_buffers[i]
         IN IF i = 1
            THEN Len(b) <= Len(f) /\ b = Drop(f, Len(f) - Len(b))
            ELSE b = f

\* C5: the bytes the transport has accepted are a prefix of the queued frames
\* laid end to end in enqueue order, the pending queue holds exactly the rest,
\* and so a frame has left the queue only with all its bytes accepted.
C5_AcceptedIsPrefix ==
  /\ IsPrefix(accepted, Flatten(queued))
  /\ accepted \o Flatten(writer.send_buffers) = Flatten(queued)
  /\ PendingIsTail

C5_Witness ==
  /\ Len(queued) >= 2
  /\ Len(writer.send_buffers) = 1
  /\ wcall.op = "write"
  /\ 0 < wcall.io.n /\ wcall.io.n < wcall.rem

\* C6: on a transport that accepts at least one byte of every attempt, and
\* with write() called again and again, a non-empty queue is eventually
\* flushed whole: the queue is empty and the transport holds every queued
\* frame exactly once, in order.
C6_WriteResumption ==
  (writer.send_buffers # <<>>)
    ~> (writer.send_buffers = <<>> /\ accepted = Flatten(queued))

C6_Witness ==
  /\ Len(queued) >= 2
  /\ writer.send_buffers = <<>>
  /\ accepted = Flatten(queued)
  /\ wcall.op = "write"

\* C7: a write() on a front frame with unflushed bytes of which the transport
\* accepts none returns Disconnected.
C7_ZeroAcceptIsDisconnected ==
  (wcall.op = "write" /\ wcall.rem > 0 /\ ~wcall.io.err /\ wcall.io.n = 0)
    => wcall.ret = "ErrDisconnected"

C7_Witness ==
  /\ wcall.op = "write" /\ wcall.rem > 0 /\ ~wcall.io.err /\ wcall.io.n = 0
  /\ wcall.ret = "ErrDisconnected"
  /\ accepted # <<>>

\* C12: a queue() whose serialization fails leaves the pending queue and the
\* front frame's cursor exactly as they were; a queue() that succeeds appends
\* exactly one frame, the new one, at the back and leaves every frame already
\* pending, the partially flushed front one included, unchanged.  Neither
\* puts anything on the transport.
C12_QueueAllOrNothing ==
  [][QueueMessage =>
       /\ accepted' = accepted
       /\ IF wcall'.ret = "Ok"
          THEN /\ Len(queued') = Len(queued) + 1
               /\ Len(writer'.send_buffers) = Len(writer.send_buffers) + 1
               /\ writer'.send_buffers[Len(writer'.send_buffers)] = queued'[Len(queued')]
               /\ \A i \in 1..Len(writer.send_buffers) :
                    writer'.send_buffers[i] = writer.send_buffers[i]
          ELSE /\ writer'.send_buffers = writer.send_buffers
               /\ queued' = queued]_vars

C12_Witness ==
  /\ wcall.op = "queue"
  /\ wcall.ret = "ErrSeri"
  /\ Len(writer.send_buffers) = 1
  /\ Len(queued) = 1
  /\ 0 < Len(writer.send_buffers[1])
  /\ Len(writer.send_buffers[1]) < Len(queued[1])

\* C27: a write() that fails, with Disconnected or with an io error, leaves
\* the pending queue and the front frame's cursor exactly as they were and
\* puts nothing on the transport: a later write() resumes from the same byte.
C27_FailedWriteChangesNothing ==
  [][(Write /\ wcall'.ret \in {"ErrDisconnected", "ErrIOError"}) =>
       /\ writer' = writer
       /\ accepted' = accepted
       /\ accepted' \o Flatten(writer'.send_buffers) = Flatten(queued)]_vars

C27_Witness ==
  /\ wcall.op = "write"
  /\ wcall.ret = "ErrIOError"
  /\ Len(writer.send_buffers) = 2
  /\ 0 < Len(writer.send_buffers[1])
  /\ Len(writer.send_buffers[1]) < Len(queued[1])

\* C17: a write() that makes the transport accept the last unflushed bytes of
\* the front frame pops that frame in the same call: after a successful
\* write() the queue is empty or its front frame has an unflushed byte.
C17_FlushedFrameIsPopped ==
  (wcall.op = "write" /\ wcall.ret = "Ok")
    => (writer.send_buffers = <<>> \/ Len(Head(writer.send_buffers)) > 0)

\* ----------------------------------------------------------------- the facade
\* wait_for_message() borrows the facade until it returns.
FacadeIdle == facade.pc = "idle"

\* What the transport answers to the write attempt of an update(): an error,
\* nothing accepted, or the whole of the front frame's rem unflushed bytes.
FacadeIos(rem) == {[err |-> TRUE, n |-> 0], [err |-> FALSE, n |-> 0], [err |-> FALSE, n |-> rem]}

\* update_read(): Reader::read, awaited to its end with n >= 1 bytes.
UpdateRead ==
  /\ FacadeIdle /\ ~pending /\ ~panicked
  /\ \E n \in 1..Len(wire) :
       /\ reader' = Reader_read(reader, Take(wire, n))
       /\ wire' = Drop(wire, n)
  /\ piped' = PipedAfterRead(reader', Len(decoded))
  /\ op' = "read"
  /\ ret' = "Ok"
  /\ sawEof' = FALSE
  /\ UNCHANGED <<eof, pending, panicked, sent, stream, consumed, drained, clears, failed>>
  /\ UNCHANGED <<writerVars, otherVars>>

\* The last Writer call after a facade update(): its write(), if it made one.
WcallAfter(f, io) ==
  IF f.wret = "NotCalled" THEN wcall
  ELSE [op |-> "write", ret |-> f.wret, rem |-> FrontRem(writer), io |-> io]

\* update() on the facade.
FacadeUpdate ==
  /\ FacadeIdle /\ ~pending /\ ~panicked
  /\ Len(decoded) < MaxDecoded
  /\ \E io \in FacadeIos(FrontRem(writer)) :
       LET f == Facade_update(reader, writer, io) IN
         /\ reader' = f.rd
         /\ writer' = f.w
         /\ accepted' = accepted \o f.out
         /\ panicked' = (f.ret = "Panic")
         /\ consumed' = consumed \o
              Take(reader.databuffer, Len(reader.databuffer) - Len(f.rd.databuffer))
         /\ failed' = (failed \/ f.rret \in UpdateErrors)
         /\ ret' = f.rret
         /\ wcall' = WcallAfter(f, io)
         /\ facade' = [NoFacade EXCEPT !.op = "update", !.ret = f.ret, !.cause = f.cause,
                                       !.new_msg = f.new_msg, !.rret = f.rret,
                                       !.wret = f.wret]
  /\ op' = "update"
  /\ sawEof' = FALSE
  /\ UNCHANGED <<wire, eof, pending, sent, stream, drained, clears, piped, queued>>
  /\ UNCHANGED <<frag, codec>>

\* wait_for_message() is called: it enters its loop.
WaitCall ==
  /\ FacadeIdle /\ ~pending /\ ~panicked
  /\ facade' = [NoFacade EXCEPT !.op = "wait_for_message", !.pc = "waiting"]
  /\ UNCHANGED <<readerVars, writerVars, frag, codec>>

\* The future of wait_for_message() is dropped while it waits in read().
WaitCancel ==
  /\ facade.pc = "waiting"
  /\ facade' = [NoFacade EXCEPT !.op = "wait_for_message", !.ret = "Cancelled"]
  /\ UNCHANGED <<readerVars, writerVars, frag, codec>>

\* One turn of the loop of wait_for_message(): update_read() returns with the
\* bytes of chunk, then update(); with a new message, latest_message() and
\* return; with an error, return it; otherwise go round again.
WaitTurn(chunk, io) ==
  LET rd1 == Reader_read(reader, chunk)
      f == Facade_update(rd1, writer, io)
      l == Reader_latest_message(f.rd)
      returns == f.ret = "Ok" /\ f.new_msg
  IN /\ reader' = IF returns THEN l.rd ELSE f.rd
     /\ drained' = IF returns THEN drained \o l.out ELSE drained
     /\ writer' = f.w
     /\ accepted' = accepted \o f.out
     /\ panicked' = (f.ret = "Panic" \/ (returns /\ l.out = <<>>))
     /\ consumed' = consumed \o
          Take(rd1.databuffer, Len(rd1.databuffer) - Len(f.rd.databuffer))
     /\ failed' = (failed \/ f.rret \in UpdateErrors)
     /\ ret' = f.rret
     /\ piped' = PipedAfterRead(rd1, Len(decoded))
     /\ wcall' = WcallAfter(f, io)
     /\ facade' =
          [op |-> "wait_for_message",
           pc |-> IF f.ret = "Ok" /\ ~f.new_msg THEN "waiting" ELSE "idle",
           ret |-> IF f.ret = "Ok" /\ ~f.new_msg THEN "None" ELSE f.ret,
           cause |-> f.cause, new_msg |-> f.new_msg, rret |-> f.rret, wret |-> f.wret,
           msg |-> IF returns THEN l.out ELSE <<>>,
           newest |-> IF returns /\ f.rd.ready_messages # <<>>
                      THEN <<f.rd.ready_messages[Len(f.rd.ready_messages)]>>
                      ELSE <<>>]

\* update_read() inside wait_for_message() returns with n >= 1 bytes.
WaitRead ==
  /\ facade.pc = "waiting"
  /\ Len(decoded) < MaxDecoded
  /\ \E n \in 1..Len(wire) : \E io \in FacadeIos(FrontRem(writer)) :
       /\ WaitTurn(Take(wire, n), io)
       /\ wire' = Drop(wire, n)
  /\ op' = "wait_for_message"
  /\ sawEof' = FALSE
  /\ UNCHANGED <<eof, pending, sent, stream, clears, queued>>
  /\ UNCHANGED <<frag, codec>>

\* update_read() inside wait_for_message() fails: the ? returns the io error.
WaitReadIoError ==
  /\ facade.pc = "waiting"
  /\ facade' = [NoFacade EXCEPT !.op = "wait_for_message", !.ret = "ErrRead",
                                !.cause = "ErrIo"]
  /\ UNCHANGED <<readerVars, writerVars, frag, codec>>

\* Most messages queued on the facade's writer in one run.
MaxFacadeQueued == 1

\* A message is queued on the facade's writer: the empty payload, whose frame
\* is its header alone.
FacadeQueue ==
  /\ FacadeIdle
  /\ Len(queued) < MaxFacadeQueued
  /\ QueueMessageOf(<<>>, TRUE)

\* The facade's primitives and its two composite calls.
NextFacade ==
  \/ UpdateRead
  \/ FacadeQueue
  \/ FacadeUpdate
  \/ WaitCall
  \/ WaitCancel
  \/ WaitRead
  \/ WaitReadIoError

\* The facade on well-formed streams.
WaitSpec == InitDrain /\ [][NextFacade]_vars

\* update_read(), queue() and update() alone.
NextFacadeUpdate ==
  \/ UpdateRead
  \/ FacadeQueue
  \/ FacadeUpdate

FacadeUpdateSpec == InitClear /\ [][NextFacadeUpdate]_vars

\* C15: update() on the facade runs Reader::update and then Writer::write.
\* A decode error is returned tagged ReadUpdate, with no write attempted and
\* the writer as it was; otherwise a write error is returned tagged Write; and
\* when both succeed the status's new_msg tells exactly whether the ready
\* queue grew by one message.
C15_UpdateTagsFirstError ==
  [][FacadeUpdate =>
       LET u == Reader_update(reader) IN
       /\ reader' = u.rd
       /\ u.ret \in UpdateErrors
            => /\ facade'.ret = "ErrReadUpdate" /\ facade'.cause = u.ret
               /\ writer' = writer /\ accepted' = accepted /\ wcall' = wcall
       /\ u.ret \in {"OkFalse", "OkTrue"}
            => /\ wcall'.op = "write"
               /\ wcall'.ret = Writer_write(writer, wcall'.io).ret
               /\ writer' = Writer_write(writer, wcall'.io).w
               /\ IF wcall'.ret = "Ok"
                  THEN /\ facade'.ret = "Ok"
                       /\ facade'.new_msg =
                            (Len(reader'.ready_messages) = Len(reader.ready_messages) + 1)
                  ELSE /\ facade'.ret = "ErrWrite" /\ facade'.cause = wcall'.ret]_vars

C15_Witness ==
  /\ facade.op = "update"
  /\ facade.ret = "ErrReadUpdate"
  /\ facade.cause = "ErrMessageDeseri"
  /\ writer.send_buffers # <<>>
  /\ accepted = <<>>

\* C16: the message wait_for_message() returns is the message whose decoding
\* made update() report a new message, whatever the ready queue held before.
C16_WaitReturnsNewMessage ==
  (facade.op = "wait_for_message" /\ facade.ret = "Ok") => facade.msg = facade.newest

\* ----------------------------------------------------------------- wait_for_message alone
\* update_read() inside wait_for_message() returns with no bytes: the peer
\* has closed and read() gives Ok(()) all the same.
WaitReadEof ==
  /\ facade.pc = "waiting"
  /\ wire = <<>> /\ eof
  /\ Len(decoded) < MaxDecoded
  /\ \E io \in FacadeIos(FrontRem(writer)) : WaitTurn(<<>>, io)
  /\ op' = "wait_for_message"
  /\ sawEof' = TRUE
  /\ UNCHANGED <<wire, eof, pending, sent, stream, clears, queued>>
  /\ UNCHANGED <<frag, codec>>

\* A caller that only ever calls wait_for_message(), on a peer that sends its
\* bytes and may then close.
NextDriver ==
  \/ WaitCall
  \/ WaitCancel
  \/ WaitRead
  \/ WaitReadEof
  \/ WaitReadIoError
  \/ PeerClose

DriverSpec == InitClear /\ [][NextDriver]_vars

\* wait_for_message() sits in read() and the peer, still connected, has
\* nothing more to send.
WaitBlocked == facade.pc = "waiting" /\ wire = <<>> /\ ~eof

\* C22: once every byte of the complete frames sent has been delivered, the
\* loop of read() then update() has obtained every message before it blocks
\* in a read() that waits for bytes the peer has no reason to send.
C22_BufferedFrameIsDelivered ==
  (WaitBlocked /\ WellFormed /\ ~panicked) => Len(decoded) >= Len(sent)

\* One more turn of the loop at end of stream would leave the reader as it is
\* and report no new message.
WaitTurnIsIdle ==
  LET u == Reader_update(Reader_read(reader, <<>>)) IN
    u.rd = reader /\ u.ret = "OkFalse"

\* C25: at end of stream wait_for_message() does not keep looping: it is
\* never left in its loop, after a read() of zero bytes, in a state that
\* another turn of read() and update() cannot change.
C25_WaitReturnsAtEof ==
  (facade.pc = "waiting" /\ eof /\ wire = <<>> /\ sawEof /\ writer.send_buffers = <<>>)
    => ~WaitTurnIsIdle

\* C26: whenever update() inside wait_for_message() reports a new message,
\* latest_message() finds one: wait_for_message() returns a message and its
\* panic branch is not taken.
C26_WaitNeverPanicsOnEmptyQueue ==
  (facade.op = "wait_for_message" /\ facade.new_msg /\ facade.ret = "Ok")
    => (Len(facade.msg) = 1 /\ ~panicked)

C26_Witness ==
  /\ facade.op = "wait_for_message"
  /\ facade.new_msg
  /\ facade.ret = "Ok"
  /\ sent # <<>>
  /\ facade.msg = <<sent[1]>>
  /\ Len(sent[1]) = 1
  /\ reader.ready_messages = <<>>

\* ----------------------------------------------------------------- chunked feeding
\* One call of the driver of chunk size c: a read() of the next chunk, then
\* update() until it reports no new message (or fails, or panics); done when
\* every byte has been fed.
HarnessStep(h, c) ==
  IF h.pc = "read"
  THEN IF h.wire = <<>>
       THEN [h EXCEPT !.pc = "done"]
       ELSE LET k == ChunkLen(c, h.wire) IN
            [reader |-> Reader_read(h.reader, Take(h.wire, k)),
             wire |-> Drop(h.wire, k),
             pc |-> "update"]
  ELSE LET u == Reader_update(h.reader) IN
       [h EXCEPT !.reader = u.rd,
                 !.pc = CASE u.ret = "OkFalse" -> "read"
                          [] u.ret = "OkTrue" ->
                               IF Len(u.rd.ready_messages) < MaxDecoded
                               THEN "update" ELSE "capped"
                          [] OTHER -> "done"]

FragStep(c) ==
  /\ frag[c].pc \in {"read", "update"}
  /\ frag' = [frag EXCEPT ![c] = HarnessStep(frag[c], c)]
  /\ UNCHANGED <<readerVars, writerVars, codec, facade>>

InitFrag ==
  /\ InitWriter
  /\ InitIdle
  /\ sent \in SeqsUpTo(Msgs(HeaderSize), MaxFrames)
  /\ InitReader(HeaderSize, {WireOf(sent, HeaderSize)})
  /\ frag = [c \in ChunkSizes |-> Harness_new(HeaderSize, stream)]

NextFrag == \E c \in ChunkSizes : FragStep(c)

FragSpec == InitFrag /\ [][NextFrag]_vars

\* C2: the same bytes fed in chunks of 1, 2, 7 and all at once, with update()
\* driven to completion after each read(), give the same decoded messages.
C2_FragmentationIndependence ==
  (\A c \in ChunkSizes : frag[c].pc = "done")
    => \A c1, c2 \in ChunkSizes :
         frag[c1].reader.ready_messages = frag[c2].reader.ready_messages

\* ----------------------------------------------------------------- the 13-byte scenario
\* An 8-byte header in front of a 5-byte payload.
ScenarioHeaderSize == 8
ScenarioPayloadLen == 5

InitScenario ==
  /\ InitWriter
  /\ InitIdle
  /\ frag = NoFrag
  /\ sent \in {<<m>> : m \in [1..ScenarioPayloadLen -> BOOLEAN]}
  /\ InitReader(ScenarioHeaderSize, {WireOf(sent, ScenarioHeaderSize)})

\* One byte per read(), and update() after each read().
NextScenario ==
  \/ (op # "read" /\ ReadIssue)
  \/ ReadDataOf(1)
  \/ (op = "read" /\ Update)

ScenarioSpec == InitScenario /\ [][NextScenario]_vars

Arrived == Len(stream) - Len(wire)

\* C10: fed one byte per read() with update() after each, the 13-byte frame
\* leaves the ready queue empty while fewer than 13 bytes have arrived, and
\* after the update() that follows the 13th byte the queue holds exactly the
\* one message sent.
C10_ThirteenBytes ==
  /\ Len(stream) = ScenarioHeaderSize + ScenarioPayloadLen
  /\ Arrived < Len(stream) => reader.ready_messages = <<>>
  /\ (Arrived = Len(stream) /\ op = "update")
       => (reader.ready_messages = sent /\ ret = "OkTrue")
  /\ ~panicked

C10_Witness ==
  /\ Arrived = 13
  /\ op = "update"
  /\ reader.ready_messages = sent
  /\ Len(sent[1]) = 5

\* ----------------------------------------------------------------- the codec alone
\* Longest payload and widest header of the codec specification.
CodecMaxPayload == 3
MaxHeaderSize == 3

\* The payloads a header of hs bytes can frame, within the codec's bound.
CodecMsgs(hs) == SeqsUpTo(BOOLEAN, Min(CodecMaxPayload, Pow(Radix, hs) - 1))

InitCodec ==
  /\ InitWriter
  /\ frag = NoFrag
  /\ facade = NoFacade
  /\ sent = <<>>
  /\ InitReader(HeaderSize, {<<>>})
  /\ \E hs \in 1..MaxHeaderSize : \E m \in CodecMsgs(hs) :
       codec = [NoCodec EXCEPT !.hs = hs, !.msg = m, !.pc = "new"]

\* MessageWrapper::serialize on the payload
CodecSerialize ==
  /\ codec.pc = "new"
  /\ codec' = [codec EXCEPT !.bytes = msg_serialize(codec.msg, codec.hs),
                            !.pc = "serialized"]
  /\ UNCHANGED <<readerVars, writerVars, frag, facade>>

\* H::from_bytes on the first header_size() bytes of the frame
CodecHeaderFromBytes ==
  /\ codec.pc = "serialized"
  /\ codec' = [codec EXCEPT !.header = header_from_bytes(Take(codec.bytes, codec.hs)),
                            !.pc = "header"]
  /\ UNCHANGED <<readerVars, writerVars, frag, facade>>

\* MessageWrapper::from_bytes on the bytes after the header
CodecFromBytes ==
  /\ codec.pc = "header"
  /\ codec' = [codec EXCEPT !.out = msg_from_bytes(Drop(codec.bytes, codec.hs)),
                            !.pc = "decoded"]
  /\ UNCHANGED <<readerVars, writerVars, frag, facade>>

NextCodec == CodecSerialize \/ CodecHeaderFromBytes \/ CodecFromBytes

CodecSpec == InitCodec /\ [][NextCodec]_vars

\* C11: serialize gives one byte sequence of exactly header_size() header
\* bytes followed by the payload bytes; the length the header declares is the
\* number of payload bytes that follow; decoding the bytes after the header
\* gives back the payload.
C11_SerializeRoundTrip ==
  /\ codec.pc \in {"serialized", "header", "decoded"}
       => /\ Len(codec.bytes) = codec.hs + serialized_size(codec.msg)
          /\ Drop(codec.bytes, codec.hs) = serialize_self(codec.msg)
  /\ codec.pc \in {"header", "decoded"}
       => /\ codec.header.ok
          /\ header_size_of(codec.header.header) = Len(codec.bytes) - codec.hs
  /\ codec.pc = "decoded"
       => /\ codec.out.ok
          /\ codec.out.msg = codec.msg

C11_Witness ==
  /\ codec.pc = "decoded"
  /\ codec.hs = 2
  /\ Len(codec.msg) = 3
  /\ codec.out.msg = codec.msg
  /\ \E i, j \in 1..3 : codec.msg[i] # codec.msg[j]

====
